---- MODULE Spec2Model ----
(***************************************************************************)
(* Token pool of grok2api (src/src/repo/tokens.ts over src/src/db.ts).     *)
(* The D1 table "tokens" is a function from token strings to rows; every   *)
(* exported function of tokens.ts is one action.  Strings that the code    *)
(* trims are sequences of one-character strings; a nullable column is a    *)
(* sequence of length at most one (<<>> is SQL NULL).                      *)
(***************************************************************************)
EXTENDS Integers, Sequences, FiniteSets, TLC

VARIABLES
    tokens,   \* the tokens table: [token string -> TokenRow]
    now,      \* the value nowMs() returns
    last,     \* the call that produced this state, with what it returned
    streak,   \* history: the run of successive 4xx recordTokenFailure calls
    struck,   \* history: tokens that completed three such calls, and whether re-added
    cache,    \* the kv_cache table: [key -> CacheRow]
    calls     \* the calls in flight: [call id -> where the call stands between awaits]

vars == <<tokens, now, last, streak, struck, cache, calls>>

----------------------------------------------------------------------------
(* Constants of the code *)

MAX_FAILURES == 3

D1_BATCH_SIZE == 50

HEAVY_MODEL == "grok-4-heavy"

Null == <<>>

Some(v) == <<v>>

Min(a, b) == IF a <= b THEN a ELSE b

----------------------------------------------------------------------------
(* String.prototype.trim and the cleaning of a token list *)

IsSpace(c) == c = " "

RECURSIVE trimStart(_)
trimStart(s) ==
    IF Len(s) > 0 /\ IsSpace(Head(s)) THEN trimStart(Tail(s)) ELSE s

RECURSIVE trimEnd(_)
trimEnd(s) ==
    IF Len(s) > 0 /\ IsSpace(s[Len(s)]) THEN trimEnd(SubSeq(s, 1, Len(s) - 1)) ELSE s

trim(s) == trimEnd(trimStart(s))

\* tokens.map((t) => t.trim()).filter(Boolean)
cleanedOf(list) ==
    LET trimmed == [i \in 1..Len(list) |-> trim(list[i])]
        nonEmpty(t) == Len(t) > 0
    IN  SelectSeq(trimmed, nonEmpty)

\* Array.prototype.slice(i, j) on a 0-based array
\* mutant: a slice that starts one element late
slice_SkipsFirst(s, i, j) == SubSeq(s, i + 2, Min(j, Len(s)))

slice(s, i, j) == SubSeq(s, i + 1, Min(j, Len(s)))

Range(s) == {s[i] : i \in 1..Len(s)}

----------------------------------------------------------------------------
(* addTokens: INSERT OR REPLACE, in batches *)

\* the row written by the INSERT OR REPLACE statement of addTokens
insertedRow(token_type, created) ==
    [ token_type              |-> token_type,
      created_time            |-> created,
      remaining_queries       |-> -1,
      heavy_remaining_queries |-> -1,
      status                  |-> "active",
      failed_count            |-> 0,
      cooldown_until          |-> Null,
      last_failure_time       |-> Null,
      last_failure_reason     |-> Null,
      tags                    |-> "[]",
      note                    |-> "" ]

\* mutant: INSERT OR IGNORE, which keeps a row that is already stored
insertOrReplace_KeepsExisting(db, stmt) ==
    IF stmt.token \in DOMAIN db THEN db
    ELSE (stmt.token :> insertedRow(stmt.token_type, stmt.created_time)) @@ db

\* one INSERT OR REPLACE INTO tokens: the row with this key is replaced whole
insertOrReplace(db, stmt) ==
    (stmt.token :> insertedRow(stmt.token_type, stmt.created_time)) @@ db

\* db.batch(batch): the statements of one batch, in order
RECURSIVE dbBatch(_, _)
dbBatch(db, batch) ==
    IF Len(batch) = 0 THEN db
    ELSE dbBatch(insertOrReplace(db, Head(batch)), Tail(batch))

RECURSIVE batchLoop(_, _, _, _)
batchLoop(db, stmts, batchSize, i) ==
    IF i < Len(stmts)
    THEN batchLoop(dbBatch(db, slice(stmts, i, i + batchSize)), stmts, batchSize, i + batchSize)
    ELSE db

\* the db.batch calls the loop of batchExecute makes, in order
RECURSIVE batchCalls(_, _, _)
batchCalls(stmts, batchSize, i) ==
    IF i < Len(stmts)
    THEN <<[kind |-> "batch", batch |-> slice(stmts, i, i + batchSize)]>>
            \o batchCalls(stmts, batchSize, i + batchSize)
    ELSE << >>

batchExecute(db, stmts, batchSize) ==
    IF Len(stmts) = 0 THEN db ELSE batchLoop(db, stmts, batchSize, 0)

addStmts(cleaned, token_type, t) ==
    [i \in 1..Len(cleaned) |->
        [token |-> cleaned[i], token_type |-> token_type, created_time |-> t]]

----------------------------------------------------------------------------
(* deleteTokens: count, then delete, batch by batch *)

\* mutant: the token_type condition left out of the WHERE clause
matching_AnyType(db, token_type, batch) ==
    {k \in DOMAIN db : k \in Range(batch)}

matching(db, token_type, batch) ==
    {k \in DOMAIN db : db[k].token_type = token_type /\ k \in Range(batch)}

deleteWhere(db, token_type, batch) ==
    LET gone == matching(db, token_type, batch)
    IN  [k \in (DOMAIN db) \ gone |-> db[k]]

\* the dbFirst and dbRun calls the loop of deleteTokens makes, in order
RECURSIVE deleteCalls(_, _)
deleteCalls(cleaned, i) ==
    IF i < Len(cleaned)
    THEN <<[kind |-> "count",  batch |-> slice(cleaned, i, i + D1_BATCH_SIZE)],
           [kind |-> "delete", batch |-> slice(cleaned, i, i + D1_BATCH_SIZE)]>>
            \o deleteCalls(cleaned, i + D1_BATCH_SIZE)
    ELSE << >>

RECURSIVE deleteLoop(_, _, _, _, _)
deleteLoop(db, cleaned, token_type, i, totalDeleted) ==
    IF i < Len(cleaned)
    THEN LET batch  == slice(cleaned, i, i + D1_BATCH_SIZE)
             before == Cardinality(matching(db, token_type, batch))
         IN  deleteLoop(deleteWhere(db, token_type, batch), cleaned, token_type,
                        i + D1_BATCH_SIZE, totalDeleted + before)
    ELSE [db |-> db, totalDeleted |-> totalDeleted]

----------------------------------------------------------------------------
(* selectBestToken *)

isHeavyModel(model) == model = HEAVY_MODEL

fieldOf(model) ==
    IF isHeavyModel(model) THEN "heavy_remaining_queries" ELSE "remaining_queries"

\* mutant: the failure threshold compared with <= instead of <
eligible_AtThreshold(row, token_type, field, t) ==
    /\ row.token_type = token_type
    /\ row.status # "expired"
    /\ row.failed_count <= MAX_FAILURES
    /\ (row.cooldown_until = Null \/ row.cooldown_until[1] <= t)
    /\ row[field] # 0

\* mutant: a cooldown that is never over (only cooldown_until IS NULL passes)
eligible_CooldownNeverOver(row, token_type, field, t) ==
    /\ row.token_type = token_type
    /\ row.status # "expired"
    /\ row.failed_count < MAX_FAILURES
    /\ row.cooldown_until = Null
    /\ row[field] # 0

\* the WHERE clause of pick, for one row
eligible(row, token_type, field, t) ==
    /\ row.token_type = token_type
    /\ row.status # "expired"
    /\ row.failed_count < MAX_FAILURES
    /\ (row.cooldown_until = Null \/ row.cooldown_until[1] <= t)
    /\ row[field] # 0

\* mutant: the quota sorted ascending instead of descending
sortsBefore_QuotaAscending(a, b, field) ==
    LET ca == IF a[field] = -1 THEN 0 ELSE 1
        cb == IF b[field] = -1 THEN 0 ELSE 1
    IN  \/ ca < cb
        \/ ca = cb /\ a[field] < b[field]
        \/ ca = cb /\ a[field] = b[field] /\ a.created_time < b.created_time

\* the ORDER BY clause of pick: row a sorts strictly before row b
sortsBefore(a, b, field) ==
    LET ca == IF a[field] = -1 THEN 0 ELSE 1
        cb == IF b[field] = -1 THEN 0 ELSE 1
    IN  \/ ca < cb
        \/ ca = cb /\ a[field] > b[field]
        \/ ca = cb /\ a[field] = b[field] /\ a.created_time < b.created_time

\* the rows LIMIT 1 may return: SQL leaves the order of equal sort keys open
pick(db, token_type, field, t) ==
    LET cand == {k \in DOMAIN db : eligible(db[k], token_type, field, t)}
    IN  {k \in cand : \A o \in cand : ~sortsBefore(db[o], db[k], field)}

found(db, keys) == {Some([token |-> k, token_type |-> db[k].token_type]) : k \in keys}

\* mutant: a heavy request that falls back to the standard pool
selectBestResults_HeavyFallsBack(db, model, t) ==
    LET field == fieldOf(model)
        super == pick(db, "ssoSuper", field, t)
        sso   == pick(db, "sso", field, t)
    IN  IF super # {} /\ (isHeavyModel(model) \/ sso = {}) THEN found(db, super)
        ELSE IF sso # {} THEN found(db, sso) ELSE {Null}

\* what selectBestToken may return; {Null} is the null result
selectBestResults(db, model, t) ==
    LET field == fieldOf(model)
        super == pick(db, "ssoSuper", field, t)
        sso   == pick(db, "sso", field, t)
    IN  IF isHeavyModel(model)
        THEN IF super # {} THEN found(db, super) ELSE {Null}
        ELSE IF sso # {} THEN found(db, sso)
             ELSE IF super # {} THEN found(db, super) ELSE {Null}

----------------------------------------------------------------------------
(* recordTokenFailure *)

\* UPDATE tokens SET failed_count = failed_count + 1, last_failure_time, last_failure_reason
\* mutant: a counter that stops at the threshold
failureUpdate_StopsAtThreshold(row, t, reason) ==
    [row EXCEPT !.failed_count        = Min(@ + 1, MAX_FAILURES),
                !.last_failure_time   = Some(t),
                !.last_failure_reason = Some(reason)]

failureUpdate(row, t, reason) ==
    [row EXCEPT !.failed_count        = @ + 1,
                !.last_failure_time   = Some(t),
                !.last_failure_reason = Some(reason)]

\* mutant: the threshold compared with > instead of >=
shouldExpire_AboveThreshold(status, failed_count) ==
    status >= 400 /\ status < 500 /\ failed_count > MAX_FAILURES

\* mutant: the upper end of the client-error range not checked
shouldExpire_AnyErrorStatus(status, failed_count) ==
    status >= 400 /\ failed_count >= MAX_FAILURES

shouldExpire(status, failed_count) ==
    status >= 400 /\ status < 500 /\ failed_count >= MAX_FAILURES

expireUpdate(row) == [row EXCEPT !.status = "expired"]

\* mutant: the status column rewritten on every report, from the condition
recordFailureDb_RewritesStatus(db, token, status, message, t) ==
    IF token \notin DOMAIN db THEN db
    ELSE LET counted == failureUpdate(db[token], t, <<status, message>>)
         IN  [db EXCEPT ![token] =
                 IF shouldExpire(status, counted.failed_count)
                 THEN expireUpdate(counted) ELSE [counted EXCEPT !.status = "active"]]

recordFailureDb(db, token, status, message, t) ==
    IF token \notin DOMAIN db THEN db
    ELSE LET counted == failureUpdate(db[token], t, <<status, message>>)
         IN  [db EXCEPT ![token] =
                 IF shouldExpire(status, counted.failed_count)
                 THEN expireUpdate(counted) ELSE counted]

----------------------------------------------------------------------------
(* applyCooldown *)

\* mutant: an exhausted quota (0) treated like a positive one
cooldownSeconds_ZeroAsPositive(remaining) ==
    IF remaining >= 0 \/ remaining = -1 THEN 3600 ELSE 36000

cooldownSeconds(remaining) ==
    IF remaining > 0 \/ remaining = -1 THEN 3600 ELSE 36000

cooldownUntilFor(db, token, status, t) ==
    IF status = 429
    THEN LET remaining == IF token \in DOMAIN db THEN db[token].remaining_queries ELSE -1
         IN  t + cooldownSeconds(remaining) * 1000
    ELSE t + 30 * 1000

\* mutant: an upsert, which stores a row for a token that has none
applyCooldownDb_InsertsMissing(db, token, status, t) ==
    IF token \notin DOMAIN db
    THEN (token :> [insertedRow("sso", t) EXCEPT
                       !.cooldown_until = Some(cooldownUntilFor(db, token, status, t))]) @@ db
    ELSE [db EXCEPT ![token].cooldown_until = Some(cooldownUntilFor(db, token, status, t))]

applyCooldownDb(db, token, status, t) ==
    IF token \notin DOMAIN db THEN db
    ELSE [db EXCEPT ![token].cooldown_until = Some(cooldownUntilFor(db, token, status, t))]

----------------------------------------------------------------------------
(* updateTokenLimits *)

\* mutant: a quota resynchronisation that also clears the failure counter
updateLimitsDb_ClearsFailures(db, token, updates) ==
    IF updates.remaining_queries = Null /\ updates.heavy_remaining_queries = Null THEN db
    ELSE IF token \notin DOMAIN db THEN db
    ELSE [db EXCEPT
            ![token].failed_count = 0,
            ![token].remaining_queries =
                IF updates.remaining_queries # Null THEN updates.remaining_queries[1] ELSE @,
            ![token].heavy_remaining_queries =
                IF updates.heavy_remaining_queries # Null
                THEN updates.heavy_remaining_queries[1] ELSE @]

updateLimitsDb(db, token, updates) ==
    IF updates.remaining_queries = Null /\ updates.heavy_remaining_queries = Null THEN db
    ELSE IF token \notin DOMAIN db THEN db
    ELSE [db EXCEPT
            ![token].remaining_queries =
                IF updates.remaining_queries # Null THEN updates.remaining_queries[1] ELSE @,
            ![token].heavy_remaining_queries =
                IF updates.heavy_remaining_queries # Null
                THEN updates.heavy_remaining_queries[1] ELSE @]

----------------------------------------------------------------------------
(* updateTokenTags, updateTokenNote *)

\* the JavaScript string with these characters
RECURSIVE joinChars(_)
joinChars(s) == IF Len(s) = 0 THEN "" ELSE Head(s) \o joinChars(Tail(s))

RECURSIVE jsonItems(_)
jsonItems(strings) ==
    IF Len(strings) = 0 THEN ""
    ELSE "\"" \o joinChars(Head(strings)) \o "\""
            \o (IF Len(strings) > 1 THEN "," ELSE "") \o jsonItems(Tail(strings))

\* JSON.stringify of an array of strings (without characters that need escaping)
jsonStringify(strings) == "[" \o jsonItems(strings) \o "]"

updateTagsDb(db, token, token_type, tags) ==
    IF token \in DOMAIN db /\ db[token].token_type = token_type
    THEN [db EXCEPT ![token].tags = jsonStringify(cleanedOf(tags))]
    ELSE db

updateNoteDb(db, token, token_type, note) ==
    IF token \in DOMAIN db /\ db[token].token_type = token_type
    THEN [db EXCEPT ![token].note = joinChars(trim(note))]
    ELSE db

----------------------------------------------------------------------------
(* tokenRowToInfo.  The labels of the source are Chinese strings; the model *)
(* names them in English, one constant per label.                          *)

LABEL_EXPIRED   == "expired"
LABEL_COOLING   == "cooling down"
LABEL_UNUSED    == "unused"
LABEL_EXHAUSTED == "quota exhausted"
LABEL_NORMAL    == "normal"

\* row.cooldown_until && row.cooldown_until > now ? row.cooldown_until - now : 0
cooldownRemainingMs(row, t) ==
    IF row.cooldown_until # Null /\ row.cooldown_until[1] # 0 /\ row.cooldown_until[1] > t
    THEN row.cooldown_until[1] - t ELSE 0

limitReason(row, t) ==
    IF cooldownRemainingMs(row, t) # 0 THEN "cooldown"
    ELSE IF row.token_type = "ssoSuper"
         THEN IF row.remaining_queries = 0 \/ row.heavy_remaining_queries = 0
              THEN "exhausted" ELSE ""
         ELSE IF row.remaining_queries = 0 THEN "exhausted" ELSE ""

\* mutant: the cooldown looked at before the expiry
statusLabel_CooldownFirst(row, t) ==
    IF cooldownRemainingMs(row, t) # 0 THEN LABEL_COOLING
    ELSE IF row.status = "expired" THEN LABEL_EXPIRED
    ELSE IF row.token_type = "ssoSuper"
         THEN IF row.remaining_queries = -1 /\ row.heavy_remaining_queries = -1
              THEN LABEL_UNUSED
              ELSE IF row.remaining_queries = 0 \/ row.heavy_remaining_queries = 0
                   THEN LABEL_EXHAUSTED ELSE LABEL_NORMAL
         ELSE IF row.remaining_queries = -1 THEN LABEL_UNUSED
              ELSE IF row.remaining_queries = 0 THEN LABEL_EXHAUSTED ELSE LABEL_NORMAL

statusLabel(row, t) ==
    IF row.status = "expired" THEN LABEL_EXPIRED
    ELSE IF cooldownRemainingMs(row, t) # 0 THEN LABEL_COOLING
    ELSE IF row.token_type = "ssoSuper"
         THEN IF row.remaining_queries = -1 /\ row.heavy_remaining_queries = -1
              THEN LABEL_UNUSED
              ELSE IF row.remaining_queries = 0 \/ row.heavy_remaining_queries = 0
                   THEN LABEL_EXHAUSTED ELSE LABEL_NORMAL
         ELSE IF row.remaining_queries = -1 THEN LABEL_UNUSED
              ELSE IF row.remaining_queries = 0 THEN LABEL_EXHAUSTED ELSE LABEL_NORMAL

tokenRowToInfo(row, t) ==
    [status             |-> statusLabel(row, t),
     limit_reason       |-> limitReason(row, t),
     cooldown_remaining |-> IF cooldownRemainingMs(row, t) # 0
                            THEN (cooldownRemainingMs(row, t) + 999) \div 1000 ELSE 0]

----------------------------------------------------------------------------
(* kv_cache: the table is a function from key to the other columns *)

cacheColumns(row) ==
    [type |-> row.type, size |-> row.size, content_type |-> row.content_type,
     created_at |-> row.created_at, last_access_at |-> row.last_access_at,
     expires_at |-> row.expires_at]

\* mutant: INSERT OR REPLACE, which stores the whole new row
upsertDb_ReplacesRow(c, row) ==
    (row.key :> cacheColumns(row)) @@ c

\* INSERT ... ON CONFLICT(key) DO UPDATE SET type, size, content_type,
\* last_access_at, expires_at
upsertDb(c, row) ==
    IF row.key \in DOMAIN c
    THEN [c EXCEPT ![row.key] = [cacheColumns(row) EXCEPT !.created_at = c[row.key].created_at]]
    ELSE (row.key :> cacheColumns(row)) @@ c

touchDb(c, key, at) ==
    IF key \in DOMAIN c THEN [c EXCEPT ![key].last_access_at = at] ELSE c

\* DELETE FROM kv_cache WHERE key IN (...)
deleteKeysDb(c, keys) == [k \in DOMAIN c \ keys |-> c[k]]

RECURSIVE deleteRowsLoop(_, _, _, _)
deleteRowsLoop(c, keys, i, batchSize) ==
    IF i >= Len(keys) THEN c
    ELSE deleteRowsLoop(deleteKeysDb(c, Range(slice(keys, i, i + batchSize))),
                        keys, i + batchSize, batchSize)

\* mutant: the age cutoff dropped when a type is given
oldestFilter_TypeOnly(c, type, beforeMs) ==
    {k \in DOMAIN c :
        IF type # Null THEN c[k].type = type[1]
        ELSE IF beforeMs # Null THEN c[k].last_access_at < beforeMs[1]
        ELSE TRUE}

\* the WHERE clause of the query variant that listOldestRows runs
oldestFilter(c, type, beforeMs) ==
    {k \in DOMAIN c :
        IF type # Null /\ beforeMs # Null
        THEN c[k].type = type[1] /\ c[k].last_access_at < beforeMs[1]
        ELSE IF type # Null THEN c[k].type = type[1]
        ELSE IF beforeMs # Null THEN c[k].last_access_at < beforeMs[1]
        ELSE TRUE}

\* ORDER BY last_access_at ASC: every order of the keys that the sort key
\* allows; rows with equal last_access_at come in any order
RECURSIVE oldestOrders(_, _)
oldestOrders(c, keys) ==
    IF keys = {} THEN { << >> }
    ELSE UNION { { <<k>> \o rest : rest \in oldestOrders(c, keys \ {k}) } :
                 k \in {k \in keys :
                           \A j \in keys : c[k].last_access_at <= c[j].last_access_at} }

\* SELECT key,type,size,last_access_at
oldestRow(c, k) ==
    [key |-> k, type |-> c[k].type, size |-> c[k].size,
     last_access_at |-> c[k].last_access_at]

\* the results the query may return; limit >= 0
listOldestResults(c, type, beforeMs, limit) ==
    { [i \in 1..Min(limit, Len(order)) |-> oldestRow(c, order[i])] :
        order \in oldestOrders(c, oldestFilter(c, type, beforeMs)) }

----------------------------------------------------------------------------
(* History of the calls made, kept beside the table for the scenario claims *)

NoStreak == [token |-> Null, n |-> 0]

is4xx(status) == status >= 400 /\ status < 500

\* the run of successive 4xx failure reports on one token that began with the
\* token active and failed_count = 0
streakAfterFailure(db, token, status) ==
    IF token \notin DOMAIN db \/ ~is4xx(status) THEN NoStreak
    ELSE IF streak.token = Some(token) /\ streak.n \in 1..2
         THEN [token |-> Some(token), n |-> streak.n + 1]
    ELSE IF db[token].status = "active" /\ db[token].failed_count = 0
         THEN [token |-> Some(token), n |-> 1]
    ELSE NoStreak

----------------------------------------------------------------------------
(* The operations *)

\* failed_count is unbounded in the code; the model stops counting at MaxFailedCount
MaxFailedCount == 4

\* History: the deleteTokens calls that have counted a batch and not yet deleted
\* it note every write of another call to a token of that batch
noteWrite(cs, op, keys) ==
    [id \in DOMAIN cs |->
        IF /\ cs[id].op = "remove" /\ cs[id].pc = "delete"
           /\ Range(slice(cs[id].cleaned, cs[id].i, cs[id].i + D1_BATCH_SIZE)) \cap keys # {}
        THEN [cs[id] EXCEPT !.raced = @ \cup {op}]
        ELSE cs[id]]

Init ==
    /\ tokens = << >>
    /\ now = 0
    /\ last = [op |-> "init"]
    /\ streak = NoStreak
    /\ struck = [done |-> {}, readded |-> {}]
    /\ cache = << >>
    /\ calls = << >>

\* nowMs() is the wall clock: it moves forward between calls
Tick(t) ==
    /\ t > now
    /\ now' = t
    /\ last' = [op |-> "tick"]
    /\ UNCHANGED <<tokens, streak, struck, cache, calls>>

addTokens(list, token_type) ==
    LET cleaned == cleanedOf(list)
    IN  /\ tokens' = IF Len(cleaned) = 0 THEN tokens
                     ELSE batchExecute(tokens, addStmts(cleaned, token_type, now), D1_BATCH_SIZE)
        /\ last' = [op |-> "add", list |-> list, cleaned |-> cleaned, token_type |-> token_type,
                    res |-> Len(cleaned),
                    storage |-> batchCalls(addStmts(cleaned, token_type, now), D1_BATCH_SIZE, 0)]
        /\ streak' = NoStreak
        /\ struck' = [struck EXCEPT !.readded = @ \cup (struck.done \cap Range(cleaned))]
        /\ calls' = noteWrite(calls, "add", Range(cleaned))
        /\ UNCHANGED <<now, cache>>

deleteTokens(list, token_type) ==
    LET cleaned == cleanedOf(list)
        out     == IF Len(cleaned) = 0 THEN [db |-> tokens, totalDeleted |-> 0]
                   ELSE deleteLoop(tokens, cleaned, token_type, 0, 0)
    IN  /\ tokens' = out.db
        /\ last' = [op |-> "remove", list |-> list, cleaned |-> cleaned, token_type |-> token_type,
                    res |-> out.totalDeleted, storage |-> deleteCalls(cleaned, 0)]
        /\ streak' = NoStreak
        /\ calls' = noteWrite(calls, "remove", Range(cleaned))
        /\ UNCHANGED <<now, struck, cache>>

\* batchExecute called with the INSERT statements of addTokens and a batch size
BatchExecute(cleaned, token_type, batchSize) ==
    /\ tokens' = batchExecute(tokens, addStmts(cleaned, token_type, now), batchSize)
    /\ last' = [op |-> "batchExecute", cleaned |-> cleaned, token_type |-> token_type,
                batchSize |-> batchSize,
                storage |-> batchCalls(addStmts(cleaned, token_type, now), batchSize, 0)]
    /\ streak' = NoStreak
    /\ struck' = [struck EXCEPT !.readded = @ \cup (struck.done \cap Range(cleaned))]
    /\ UNCHANGED <<now, cache, calls>>

selectBestToken(model) ==
    /\ \E r \in selectBestResults(tokens, model, now) :
          last' = [op |-> "selectBest", model |-> model, res |-> r]
    /\ streak' = NoStreak
    /\ UNCHANGED <<tokens, now, struck, cache, calls>>

recordTokenFailure(token, status, message) ==
    /\ token \in DOMAIN tokens => tokens[token].failed_count < MaxFailedCount
    /\ tokens' = recordFailureDb(tokens, token, status, message, now)
    /\ last' = [op |-> "recordFailure", token |-> token, status |-> status]
    /\ streak' = streakAfterFailure(tokens, token, status)
    /\ struck' = IF streak'.n = 3
                 THEN [done |-> struck.done \cup {token}, readded |-> struck.readded \ {token}]
                 ELSE struck
    /\ UNCHANGED <<now, cache, calls>>

applyCooldown(token, status) ==
    /\ tokens' = applyCooldownDb(tokens, token, status, now)
    /\ last' = [op |-> "applyCooldown", token |-> token, status |-> status]
    /\ streak' = NoStreak
    /\ UNCHANGED <<now, struck, cache, calls>>

updateTokenLimits(token, updates) ==
    /\ tokens' = updateLimitsDb(tokens, token, updates)
    /\ last' = [op |-> "updateLimits", token |-> token, updates |-> updates]
    /\ streak' = NoStreak
    /\ UNCHANGED <<now, struck, cache, calls>>

updateTokenTags(token, token_type, tags) ==
    /\ tokens' = updateTagsDb(tokens, token, token_type, tags)
    /\ last' = [op |-> "updateTags", token |-> token, token_type |-> token_type]
    /\ streak' = NoStreak
    /\ UNCHANGED <<now, struck, cache, calls>>

updateTokenNote(token, token_type, note) ==
    /\ tokens' = updateNoteDb(tokens, token, token_type, note)
    /\ last' = [op |-> "updateNote", token |-> token, token_type |-> token_type]
    /\ streak' = NoStreak
    /\ UNCHANGED <<now, struck, cache, calls>>

\* tokenRowToInfo applied to the stored row of a token
TokenInfo(token) ==
    /\ token \in DOMAIN tokens
    /\ last' = [op |-> "info", token |-> token, res |-> tokenRowToInfo(tokens[token], now)]
    /\ streak' = NoStreak
    /\ UNCHANGED <<tokens, now, struck, cache, calls>>

upsertCacheRow(row) ==
    /\ cache' = upsertDb(cache, row)
    /\ last' = [op |-> "upsert", key |-> row.key, row |-> row]
    /\ UNCHANGED <<tokens, now, streak, struck, calls>>

touchCacheRow(key, at) ==
    /\ cache' = touchDb(cache, key, at)
    /\ last' = [op |-> "touch", key |-> key, at |-> at]
    /\ UNCHANGED <<tokens, now, streak, struck, calls>>

deleteCacheRow(key) ==
    /\ cache' = deleteKeysDb(cache, {key})
    /\ last' = [op |-> "deleteRow", keys |-> <<key>>]
    /\ UNCHANGED <<tokens, now, streak, struck, calls>>

deleteCacheRows(keys) ==
    /\ cache' = IF Len(keys) = 0 THEN cache
                ELSE deleteRowsLoop(cache, keys, 0, D1_BATCH_SIZE)
    /\ last' = [op |-> "deleteRows", keys |-> keys]
    /\ UNCHANGED <<tokens, now, streak, struck, calls>>

listOldestRows(type, beforeMs, limit) ==
    /\ \E r \in listOldestResults(cache, type, beforeMs, limit) :
          last' = [op |-> "listOldest", type |-> type, beforeMs |-> beforeMs,
                   limit |-> limit, res |-> r]
    /\ UNCHANGED <<tokens, now, streak, struck, cache, calls>>

----------------------------------------------------------------------------
(* Concurrent calls.  A call in flight is an entry of calls; every awaited  *)
(* storage statement is one step, and the steps of different calls         *)
(* interleave.  The code of a call up to its first statement runs with it. *)

\* recordTokenFailure: UPDATE ... failed_count = failed_count + 1
failureIncrement(id, token, status, message) ==
    /\ id \notin DOMAIN calls
    /\ token \in DOMAIN tokens => tokens[token].failed_count < MaxFailedCount
    /\ tokens' = IF token \in DOMAIN tokens
                 THEN [tokens EXCEPT ![token] = failureUpdate(@, now, <<status, message>>)]
                 ELSE tokens
    /\ calls' = (id :> [op |-> "recordFailure", pc |-> "select", token |-> token,
                        status |-> status]) @@ calls
    /\ UNCHANGED <<now, last, streak, struck, cache>>

\* recordTokenFailure: SELECT failed_count, and the two tests on the row
failureSelect(id) ==
    /\ id \in DOMAIN calls
    /\ calls[id].op = "recordFailure" /\ calls[id].pc = "select"
    /\ calls' = [calls EXCEPT ![id].pc =
                    IF /\ calls[id].token \in DOMAIN tokens
                       /\ shouldExpire(calls[id].status, tokens[calls[id].token].failed_count)
                    THEN "expire" ELSE "done"]
    /\ UNCHANGED <<tokens, now, last, streak, struck, cache>>

\* recordTokenFailure: UPDATE tokens SET status = 'expired'
failureExpire(id) ==
    /\ id \in DOMAIN calls
    /\ calls[id].op = "recordFailure" /\ calls[id].pc = "expire"
    /\ tokens' = IF calls[id].token \in DOMAIN tokens
                 THEN [tokens EXCEPT ![calls[id].token] = expireUpdate(@)]
                 ELSE tokens
    /\ calls' = [calls EXCEPT ![id].pc = "done"]
    /\ UNCHANGED <<now, last, streak, struck, cache>>

\* applyCooldown with status 429: SELECT remaining_queries
cooldownSelect(id, token) ==
    /\ id \notin DOMAIN calls
    /\ calls' = (id :> [op |-> "applyCooldown", pc |-> "update", token |-> token,
                        until |-> cooldownUntilFor(tokens, token, 429, now)]) @@ calls
    /\ UNCHANGED <<tokens, now, last, streak, struck, cache>>

\* applyCooldown: UPDATE tokens SET cooldown_until
cooldownUpdate(id) ==
    /\ id \in DOMAIN calls
    /\ calls[id].op = "applyCooldown" /\ calls[id].pc = "update"
    /\ tokens' = IF calls[id].token \in DOMAIN tokens
                 THEN [tokens EXCEPT ![calls[id].token].cooldown_until = Some(calls[id].until)]
                 ELSE tokens
    /\ calls' = [calls EXCEPT ![id].pc = "done"]
    /\ UNCHANGED <<now, last, streak, struck, cache>>

\* deleteTokens up to its loop; removed and raced are history
removeStart(id, list, token_type) ==
    /\ id \notin DOMAIN calls
    /\ calls' = (id :> [op |-> "remove",
                        pc |-> IF Len(cleanedOf(list)) = 0 THEN "done" ELSE "count",
                        cleaned |-> cleanedOf(list), token_type |-> token_type,
                        i |-> 0, before |-> 0, totalDeleted |-> 0,
                        removed |-> 0, raced |-> {}]) @@ calls
    /\ UNCHANGED <<tokens, now, last, streak, struck, cache>>

\* deleteTokens: SELECT COUNT(1) of the batch at i
removeCount(id) ==
    /\ id \in DOMAIN calls
    /\ calls[id].op = "remove" /\ calls[id].pc = "count"
    /\ LET c     == calls[id]
           batch == slice(c.cleaned, c.i, c.i + D1_BATCH_SIZE)
       IN  calls' = [calls EXCEPT ![id].pc = "delete",
                                  ![id].before = Cardinality(matching(tokens, c.token_type, batch))]
    /\ UNCHANGED <<tokens, now, last, streak, struck, cache>>

\* deleteTokens: DELETE of the batch at i, totalDeleted += before, i += D1_BATCH_SIZE
removeDelete(id) ==
    /\ id \in DOMAIN calls
    /\ calls[id].op = "remove" /\ calls[id].pc = "delete"
    /\ LET c     == calls[id]
           batch == slice(c.cleaned, c.i, c.i + D1_BATCH_SIZE)
           mine  == [c EXCEPT !.pc = IF c.i + D1_BATCH_SIZE < Len(c.cleaned)
                                     THEN "count" ELSE "done",
                              !.i = c.i + D1_BATCH_SIZE,
                              !.totalDeleted = c.totalDeleted + c.before,
                              !.removed = @ + Cardinality(matching(tokens, c.token_type, batch))]
       IN  /\ tokens' = deleteWhere(tokens, c.token_type, batch)
           /\ calls' = [noteWrite(calls, "remove", Range(batch)) EXCEPT ![id] = mine]
    /\ UNCHANGED <<now, last, streak, struck, cache>>

\* a call that has run its last statement returns
callReturn(id) ==
    /\ id \in DOMAIN calls
    /\ calls[id].pc = "done"
    /\ calls' = [k \in DOMAIN calls \ {id} |-> calls[k]]
    /\ UNCHANGED <<tokens, now, last, streak, struck, cache>>

----------------------------------------------------------------------------
(* Inputs *)

TokA == <<"A">>

TokB == <<"B">>

TokC == <<"C">>

TokenTypes == {"sso", "ssoSuper"}

Models == {"grok-3", HEAVY_MODEL}

Updates(values) ==
    [remaining_queries : {Null} \cup {Some(v) : v \in values},
     heavy_remaining_queries : {Null} \cup {Some(v) : v \in values}]

\* the calls a client makes, over the inputs P
Calls(P) ==
    \/ \E list \in P.lists, ty \in P.types : addTokens(list, ty)
    \/ \E list \in P.lists, ty \in P.types : deleteTokens(list, ty)
    \/ \E m \in P.models : selectBestToken(m)
    \/ \E k \in P.keys, s \in P.failures : recordTokenFailure(k, s, "m")
    \/ \E k \in P.keys, s \in P.cooldowns : applyCooldown(k, s)
    \/ \E k \in P.keys, u \in P.updates : updateTokenLimits(k, u)
    \/ \E t \in P.clock : Tick(t)

----------------------------------------------------------------------------
(* Spec: every operation on one token A, beside a second token B that is   *)
(* only added and removed and a token string C that is never stored.       *)

FailInputs ==
    [ lists     |-> {<<TokA>>, << <<" ", "B", " ">>, <<" ">> >>},
      types     |-> TokenTypes,
      models    |-> Models,
      keys      |-> {TokA, TokC},
      failures  |-> {404, 500},
      cooldowns |-> {500},
      updates   |-> {[remaining_queries |-> Some(0), heavy_remaining_queries |-> Null]},
      clock     |-> {1000} ]

Next == Calls(FailInputs)

Spec == Init /\ [][Next]_vars

----------------------------------------------------------------------------
(* C1 *)

\* C1 as stated: once a token's status is expired, no operation (add included)
\* makes it active again.
C1_ExpiredNeverActiveAgain ==
    [][\A k \in DOMAIN tokens \cap DOMAIN tokens' :
          tokens[k].status = "expired" => tokens'[k].status # "active"]_vars

\* C1 amended: a stored token's status changes only from active to expired,
\* except in an add call that lists the token, which stores it anew as active.
C1_StatusChangesOnlyToExpiredOrByAdd ==
    [][\A k \in DOMAIN tokens \cap DOMAIN tokens' :
          \/ tokens'[k].status = tokens[k].status
          \/ tokens[k].status = "active" /\ tokens'[k].status = "expired"
          \/ last'.op = "add" /\ k \in Range(last'.cleaned)]_vars

\* a failure was reported for an expired token, which is still expired
C1_Witness ==
    /\ last.op = "recordFailure" /\ last.token = TokA /\ last.status = 500
    /\ TokA \in DOMAIN tokens
    /\ tokens[TokA].status = "expired"
    /\ tokens[TokA].failed_count = MAX_FAILURES + 1

----------------------------------------------------------------------------
(* C2 *)

\* C2 as stated: no operation, add on a known token included, lowers a token's
\* failed_count.
C2_FailedCountNeverLowered ==
    [][\A k \in DOMAIN tokens \cap DOMAIN tokens' :
          tokens'[k].failed_count >= tokens[k].failed_count]_vars

\* C2 amended: failed_count of a stored token never decreases, except in an add
\* call that lists the token, which resets it to 0.
C2_FailedCountLoweredOnlyByAdd ==
    [][\A k \in DOMAIN tokens \cap DOMAIN tokens' :
          \/ tokens'[k].failed_count >= tokens[k].failed_count
          \/ /\ last'.op = "add" /\ k \in Range(last'.cleaned)
             /\ tokens'[k].failed_count = 0]_vars

\* a token that had failed three times was added again and counts 0 failures
C2_Witness ==
    /\ last.op = "add" /\ TokA \in Range(last.cleaned)
    /\ TokA \in struck.readded
    /\ tokens[TokA].failed_count = 0

----------------------------------------------------------------------------
(* C3 *)

C3_ThreeFailuresExpire ==
    streak.n = 3 =>
        /\ streak.token[1] \in DOMAIN tokens
        /\ tokens[streak.token[1]].failed_count = 3
        /\ tokens[streak.token[1]].status = "expired"

C3_NotReturned(ks) ==
    \A k \in ks : (last.op = "selectBest" /\ last.res # Null) => last.res[1].token # k

\* C3 as stated: after three successive 4xx failure reports on an active token
\* with failed_count = 0 the token has failed_count = 3 and is expired, and no
\* later selectBest returns it.
C3_ExpiredAfterThreeNeverSelected ==
    C3_ThreeFailuresExpire /\ C3_NotReturned(struck.done)

\* C3 amended: ... and no later selectBest returns it, as long as the token has
\* not been added again.
C3_ExpiredAfterThreeNotSelectedUntilReadded ==
    C3_ThreeFailuresExpire /\ C3_NotReturned(struck.done \ struck.readded)

\* selectBest ran after A's three failures, with another token to return
C3_Witness ==
    /\ TokA \in struck.done \ struck.readded
    /\ TokA \in DOMAIN tokens
    /\ last.op = "selectBest" /\ last.res # Null

----------------------------------------------------------------------------
(* C4 *)

\* C4: a status becomes expired only in a recordFailure call with a status in
\* [400,500) that leaves failed_count >= 3; a recordFailure call with any other
\* status adds one to failed_count and leaves the status as it was.
C4_ExpiresOnlyOn4xxAtThreshold ==
    [][/\ \A k \in DOMAIN tokens' :
             (tokens'[k].status = "expired"
                /\ (k \in DOMAIN tokens => tokens[k].status # "expired"))
             => /\ last'.op = "recordFailure" /\ last'.token = k
                /\ last'.status >= 400 /\ last'.status < 500
                /\ tokens'[k].failed_count >= 3
       /\ \A k \in DOMAIN tokens :
             (last'.op = "recordFailure" /\ last'.token = k
                /\ ~(last'.status >= 400 /\ last'.status < 500))
             => /\ k \in DOMAIN tokens'
                /\ tokens'[k].failed_count = tokens[k].failed_count + 1
                /\ tokens'[k].status = tokens[k].status]_vars

\* four 5xx failures and the token is still active
C4_Witness ==
    /\ last.op = "recordFailure" /\ last.token = TokA /\ last.status = 500
    /\ TokA \in DOMAIN tokens
    /\ tokens[TokA].status = "active"
    /\ tokens[TokA].failed_count > MAX_FAILURES

----------------------------------------------------------------------------
(* SpecPick: selectBestToken over pools of up to three tokens.  Each pool  *)
(* is the table left by add, updateLimits, recordFailure and applyCooldown *)
(* calls on its tokens, made at the token's creation time.                 *)

RECURSIVE failTimes(_, _, _, _, _)
failTimes(db, token, status, t, n) ==
    IF n = 0 THEN db
    ELSE failTimes(recordFailureDb(db, token, status, "m", t), token, status, t, n - 1)

\* the table after the calls that bring token k into shape p
seeded(db, k, p) ==
    LET added   == batchExecute(db, addStmts(<<k>>, p.token_type, p.created), D1_BATCH_SIZE)
        limited == updateLimitsDb(added, k,
                      [remaining_queries |-> p.rem, heavy_remaining_queries |-> p.heavy])
    IN  CASE p.health = "ok"      -> limited
          [] p.health = "failed2" -> failTimes(limited, k, 404, p.created, 2)
          [] p.health = "failed3" -> failTimes(limited, k, 500, p.created, 3)
          [] p.health = "expired" -> failTimes(limited, k, 404, p.created, 3)
          [] p.health = "cooling" -> applyCooldownDb(limited, k, 500, p.created)
          [] p.health = "absent"  -> db

CreationTimes == {0, 1000}

Absent ==
    [token_type |-> "sso", created |-> 0, rem |-> Null, heavy |-> Null, health |-> "absent"]

\* shapes of tokens A and B: any quota when healthy, the best quota otherwise
Shapes ==
    {Absent}
    \cup [token_type : {"sso"}, created : CreationTimes,
          rem : {Null, Some(0), Some(5), Some(10)}, heavy : {Null}, health : {"ok"}]
    \cup [token_type : {"ssoSuper"}, created : CreationTimes,
          rem : {Null, Some(0), Some(5), Some(10)}, heavy : {Null, Some(0), Some(5)},
          health : {"ok"}]
    \cup [token_type : TokenTypes, created : CreationTimes, rem : {Null}, heavy : {Null},
          health : {"failed2", "failed3", "expired", "cooling"}]

\* shapes of token C: absent or as added
FreshShapes ==
    {Absent}
    \cup [token_type : TokenTypes, created : CreationTimes, rem : {Null}, heavy : {Null},
          health : {"ok"}]

Pools ==
    {seeded(seeded(seeded(<< >>, TokA, a), TokB, b), TokC, c) :
        a \in Shapes, b \in Shapes, c \in FreshShapes}

InitPick ==
    /\ tokens \in Pools
    /\ now = 1000
    /\ last = [op |-> "init"]
    /\ streak = NoStreak
    /\ struck = [done |-> {}, readded |-> {}]
    /\ cache = << >>
    /\ calls = << >>

NextPick ==
    \/ \E m \in Models : selectBestToken(m)
    \/ \E t \in {31000} : Tick(t)

SpecPick == InitPick /\ [][NextPick]_vars

----------------------------------------------------------------------------
(* C5, C6, C7: what the last selectBest call returned, against the table   *)
(* it read (selectBestToken writes nothing)                                *)

Selected == last.op = "selectBest" /\ last.res # Null

NoneSelected == last.op = "selectBest" /\ last.res = Null

\* the quota the claims name for a model
QuotaFor(model, k) ==
    IF model = "grok-4-heavy" THEN tokens[k].heavy_remaining_queries
    ELSE tokens[k].remaining_queries

\* the eligibility predicate as the claims state it
Claimed_Eligible(model, k) ==
    /\ tokens[k].status # "expired"
    /\ tokens[k].failed_count < 3
    /\ (tokens[k].cooldown_until = Null \/ ~(tokens[k].cooldown_until[1] > now))
    /\ QuotaFor(model, k) # 0

AllowedTypes(model) ==
    IF model = "grok-4-heavy" THEN {"ssoSuper"} ELSE {"sso", "ssoSuper"}

\* C5: a returned token is eligible at the time of the read, and nothing is
\* returned only if no token of the allowed pools is eligible; a token with
\* failed_count = MAX_FAILURES is never returned.
C5_ReturnsOnlyEligible ==
    /\ Selected =>
          /\ last.res[1].token \in DOMAIN tokens
          /\ Claimed_Eligible(last.model, last.res[1].token)
          /\ tokens[last.res[1].token].failed_count # MAX_FAILURES
    /\ NoneSelected =>
          \A k \in DOMAIN tokens :
             tokens[k].token_type \in AllowedTypes(last.model)
                => ~Claimed_Eligible(last.model, k)

\* nothing is returned although a token with failed_count = 3 is active, not
\* cooling down and has quota left
C5_Witness ==
    /\ NoneSelected /\ last.model = "grok-3"
    /\ \E k \in DOMAIN tokens :
          /\ tokens[k].failed_count = MAX_FAILURES
          /\ tokens[k].status = "active"
          /\ tokens[k].cooldown_until = Null
          /\ tokens[k].remaining_queries = -1

\* the ranking as the claim states it: a ranks strictly above b
Claimed_RanksAbove(model, a, b) ==
    LET qa == QuotaFor(model, a)
        qb == QuotaFor(model, b)
    IN  \/ qa = -1 /\ qb # -1
        \/ qa # -1 /\ qb # -1 /\ qa > qb
        \/ qa = qb /\ tokens[a].created_time < tokens[b].created_time

\* C6: no eligible token of the pool read (the tokens of the returned token's
\* type) ranks above the returned one.
C6_ReturnsMaximal ==
    Selected =>
        \A k \in DOMAIN tokens :
            (tokens[k].token_type = last.res[1].token_type /\ Claimed_Eligible(last.model, k))
                => ~Claimed_RanksAbove(last.model, k, last.res[1].token)

\* the unlimited token C is returned ahead of B, which has 10 left, although
\* an older unlimited token A is stored that is not eligible
C6_Witness ==
    /\ Selected /\ last.model = "grok-3"
    /\ DOMAIN tokens = {TokA, TokB, TokC}
    /\ \A k \in DOMAIN tokens : tokens[k].token_type = "sso"
    /\ tokens[TokA].remaining_queries = -1 /\ tokens[TokA].created_time = 0
    /\ tokens[TokB].remaining_queries = 10 /\ tokens[TokB].created_time = 1000
    /\ tokens[TokC].remaining_queries = -1 /\ tokens[TokC].created_time = 1000
    /\ ~Claimed_Eligible("grok-3", TokA)
    /\ Claimed_Eligible("grok-3", TokB)
    /\ last.res[1].token = TokC

\* C7: a heavy request never returns a standard token; a standard request
\* returns a super token only when no standard token is eligible, and then a
\* super token that is eligible and maximal by remaining_queries.
C7_PoolsByModel ==
    Selected =>
        LET k == last.res[1].token
        IN  /\ last.res[1].token_type = tokens[k].token_type
            /\ last.model = "grok-4-heavy" => tokens[k].token_type # "sso"
            /\ (last.model # "grok-4-heavy" /\ tokens[k].token_type = "ssoSuper") =>
                  /\ \A o \in DOMAIN tokens :
                        tokens[o].token_type = "sso" => ~Claimed_Eligible(last.model, o)
                  /\ tokens[k].remaining_queries # 0
                  /\ \A o \in DOMAIN tokens :
                        (tokens[o].token_type = "ssoSuper" /\ Claimed_Eligible(last.model, o))
                        => ~(\/ tokens[o].remaining_queries = -1
                                   /\ tokens[k].remaining_queries # -1
                             \/ tokens[o].remaining_queries # -1
                                   /\ tokens[k].remaining_queries # -1
                                   /\ tokens[o].remaining_queries > tokens[k].remaining_queries)

\* a standard request falls back to a super token whose heavy quota is 0, past
\* a standard token that is not eligible
C7_Witness ==
    /\ Selected /\ last.model = "grok-3"
    /\ DOMAIN tokens = {TokA, TokB}
    /\ tokens[TokA].token_type = "sso" /\ ~Claimed_Eligible("grok-3", TokA)
    /\ tokens[TokB].token_type = "ssoSuper"
    /\ tokens[TokB].heavy_remaining_queries = 0 /\ tokens[TokB].remaining_queries = 10
    /\ last.res[1].token = TokB

----------------------------------------------------------------------------
(* SpecCooldown: cooldowns and quota updates on token A over the times at  *)
(* which the cooldowns end, beside tokens B and C that are added with it.  *)

AddLists == {<<TokA>>, <<TokA, TokB, TokC>>}

QuotaUpdates ==
    [remaining_queries : {Some(0), Some(5)}, heavy_remaining_queries : {Null}]

NextCooldown ==
    \/ \E list \in AddLists, ty \in TokenTypes : addTokens(list, ty)
    \/ \E ty \in TokenTypes : deleteTokens(<<TokA, TokB, TokC>>, ty)
    \/ \E m \in Models : selectBestToken(m)
    \/ \E s \in {404, 429, 500} : applyCooldown(TokA, s)
    \/ \E u \in QuotaUpdates : updateTokenLimits(TokA, u)
    \/ recordTokenFailure(TokA, 429, "m")
    \/ \E t \in {30000, 3600000} : Tick(t)

SpecCooldown == Init /\ [][NextCooldown]_vars

----------------------------------------------------------------------------
(* C8 *)

\* C8: a standard selectBest that follows add([A, B, C], standard), after which
\* the pool holds exactly these three as added, returns A.
C8_FirstAddedIsReturned ==
    [][(/\ last.op = "add" /\ last.cleaned = <<TokA, TokB, TokC>>
        /\ last.token_type = "sso"
        /\ DOMAIN tokens = {TokA, TokB, TokC}
        /\ last'.op = "selectBest" /\ last'.model = "grok-3")
       => last'.res = Some([token |-> TokA, token_type |-> "sso"])]_vars

----------------------------------------------------------------------------
(* C9 *)

\* C9: applyCooldown(T, 429) on a token with remaining = -1 sets cooldown_until
\* to now + 3600000; a selectBest evaluated before cooldown_until does not
\* return T; one evaluated at or after it returns T when T is the one stored
\* token and is active, below the failure threshold and has quota left, with
\* cooldown_until still set.
C9_CooldownGatesSelection ==
    [][\A k \in DOMAIN tokens :
          /\ (/\ last'.op = "applyCooldown" /\ last'.token = k /\ last'.status = 429
              /\ tokens[k].remaining_queries = -1)
             => tokens'[k].cooldown_until = Some(now + 3600000)
          /\ (last'.op = "selectBest" /\ tokens[k].cooldown_until # Null)
             => IF now < tokens[k].cooldown_until[1]
                THEN last'.res = Null \/ last'.res[1].token # k
                ELSE (/\ DOMAIN tokens = {k}
                      /\ tokens[k].token_type \in AllowedTypes(last'.model)
                      /\ tokens[k].status = "active"
                      /\ tokens[k].failed_count < 3
                      /\ QuotaFor(last'.model, k) # 0)
                     => /\ last'.res = Some([token |-> k, token_type |-> tokens[k].token_type])
                        /\ tokens'[k].cooldown_until = tokens[k].cooldown_until]_vars

\* A, the one stored token, put into a one-hour cooldown at time 0, is returned
\* at time 3600000
C9_Witness ==
    /\ Selected /\ last.res[1].token = TokA
    /\ DOMAIN tokens = {TokA}
    /\ tokens[TokA].remaining_queries = -1
    /\ tokens[TokA].cooldown_until = Some(3600000)
    /\ now = 3600000

----------------------------------------------------------------------------
(* C10 *)

\* C10: applyCooldown on a stored token sets cooldown_until to now + D, with
\* D = 3600000 for 429 and remaining -1 or > 0, D = 36000000 for 429 and
\* remaining = 0, D = 30000 for any other status.
C10_CooldownDuration ==
    [][\A k \in DOMAIN tokens :
          (last'.op = "applyCooldown" /\ last'.token = k) =>
             LET rem == tokens[k].remaining_queries
             IN  /\ k \in DOMAIN tokens'
                 /\ (last'.status = 429 /\ (rem = -1 \/ rem > 0))
                       => tokens'[k].cooldown_until = Some(now + 3600000)
                 /\ (last'.status = 429 /\ rem = 0)
                       => tokens'[k].cooldown_until = Some(now + 36000000)
                 /\ last'.status # 429
                       => tokens'[k].cooldown_until = Some(now + 30000)]_vars

\* a 429 on a token with an exhausted quota: ten hours
C10_Witness ==
    /\ last.op = "applyCooldown" /\ last.token = TokA /\ last.status = 429
    /\ TokA \in DOMAIN tokens
    /\ tokens[TokA].remaining_queries = 0
    /\ tokens[TokA].cooldown_until = Some(now + 36000000)

----------------------------------------------------------------------------
(* SpecAdd: add over a token A that failures, cooldowns, quota updates,    *)
(* tags and notes have marked, from lists with padded and blank strings.   *)

PaddedLists ==
    { << <<" ", "A", " ">>, <<" ">>, << >> >>, <<TokB, TokA>> }

NextAdd ==
    \/ \E list \in PaddedLists, ty \in TokenTypes : addTokens(list, ty)
    \/ \E ty \in TokenTypes : deleteTokens(<<TokA>>, ty)
    \/ \E k \in {TokA, TokC} : recordTokenFailure(k, 404, "m")
    \/ \E k \in {TokA, TokC}, status \in {429, 500} : applyCooldown(k, status)
    \/ updateTokenLimits(TokA, [remaining_queries |-> Some(0),
                                heavy_remaining_queries |-> Some(5)])
    \/ \E ty \in TokenTypes : updateTokenTags(TokA, ty, << <<" ", "x">>, <<" ">>, <<"y">> >>)
    \/ \E ty \in TokenTypes : updateTokenNote(TokA, ty, <<"n", " ">>)
    \/ Tick(1000)

SpecAdd == Init /\ [][NextAdd]_vars

----------------------------------------------------------------------------
(* C11 *)

\* the row the claim describes, of the given type
Claimed_ResetRow(row, token_type) ==
    /\ row.token_type = token_type
    /\ row.remaining_queries = -1 /\ row.heavy_remaining_queries = -1
    /\ row.status = "active" /\ row.failed_count = 0
    /\ row.cooldown_until = Null
    /\ row.last_failure_time = Null /\ row.last_failure_reason = Null
    /\ row.tags = "[]" /\ row.note = ""

\* C11: after add(list, type), every element of the list that is not blank is
\* stored, under the string left when its leading and trailing blanks are
\* dropped, as a row of that type with remaining = -1, heavyRemaining = -1,
\* status active, failed_count 0, no cooldown, no failure time or reason, empty
\* tags and note, whatever was stored under that string before.
C11_AddIsHardReset ==
    [][last'.op = "add" =>
         \A i \in 1..Len(last'.list) :
            LET e == last'.list[i]
            IN  (\E j \in 1..Len(e) : e[j] # " ") =>
                   \E a, b \in 1..Len(e) :
                      /\ a <= b /\ e[a] # " " /\ e[b] # " "
                      /\ \A j \in 1..Len(e) : (j < a \/ j > b) => e[j] = " "
                      /\ SubSeq(e, a, b) \in DOMAIN tokens'
                      /\ Claimed_ResetRow(tokens'[SubSeq(e, a, b)], last'.token_type)]_vars

\* A, which had expired, was added again from a padded string and is as new
C11_Witness ==
    /\ last.op = "add" /\ last.list[1] = <<" ", "A", " ">>
    /\ last.token_type = "ssoSuper"
    /\ TokA \in struck.readded
    /\ Claimed_ResetRow(tokens[TokA], "ssoSuper")

----------------------------------------------------------------------------
(* C18 *)

\* C18: recordFailure and applyCooldown on a token string that is not stored
\* store nothing and leave the whole table as it was.
C18_MissingTokenIsNoOp ==
    [][(last'.op \in {"recordFailure", "applyCooldown"} /\ last'.token \notin DOMAIN tokens)
          => tokens' = tokens]_vars

\* a 429 cooldown was requested for C, which is not stored, beside a stored A
C18_Witness ==
    /\ last.op = "applyCooldown" /\ last.token = TokC /\ last.status = 429
    /\ DOMAIN tokens = {TokA}
    /\ tokens[TokA].failed_count = 2

----------------------------------------------------------------------------
(* C20 *)

\* C20: an applyCooldown call on a stored token that has a cooldown deadline
\* leaves a deadline that is not earlier than the one it found.
C20_CooldownNeverEarlier ==
    [][(/\ last'.op = "applyCooldown"
        /\ last'.token \in DOMAIN tokens
        /\ tokens[last'.token].cooldown_until # Null)
          => tokens'[last'.token].cooldown_until[1] >= tokens[last'.token].cooldown_until[1]]_vars

----------------------------------------------------------------------------
(* SpecInfo: tokenRowToInfo over one stored row of every type, quota,      *)
(* expiry and cooldown, before and at the cooldown deadline.               *)

InfoShapes ==
    [token_type : TokenTypes, rem : {Null, Some(0), Some(5)}, heavy : {Null, Some(0), Some(5)},
     expired : BOOLEAN, cool : {"none", "short", "long"}]

\* the table after the calls that bring token k into shape p, all at time 0
seededInfo(db, k, p) ==
    LET added   == batchExecute(db, addStmts(<<k>>, p.token_type, 0), D1_BATCH_SIZE)
        limited == updateLimitsDb(added, k,
                      [remaining_queries |-> p.rem, heavy_remaining_queries |-> p.heavy])
        failed  == IF p.expired THEN failTimes(limited, k, 404, 0, 3) ELSE limited
    IN  CASE p.cool = "none"  -> failed
          [] p.cool = "short" -> applyCooldownDb(failed, k, 500, 0)
          [] p.cool = "long"  -> applyCooldownDb(failed, k, 429, 0)

InitInfo ==
    /\ tokens \in {seededInfo(<< >>, TokA, p) : p \in InfoShapes}
    /\ now = 60000
    /\ last = [op |-> "init"]
    /\ streak = NoStreak
    /\ struck = [done |-> {}, readded |-> {}]
    /\ cache = << >>
    /\ calls = << >>

NextInfo ==
    \/ TokenInfo(TokA)
    \/ \E t \in {3599500, 3600000} : Tick(t)

SpecInfo == InitInfo /\ [][NextInfo]_vars

----------------------------------------------------------------------------
(* C15 *)

Claimed_Cooling(row, t) == row.cooldown_until # Null /\ row.cooldown_until[1] > t

Claimed_Exhausted(row) ==
    IF row.token_type = "ssoSuper"
    THEN row.remaining_queries = 0 \/ row.heavy_remaining_queries = 0
    ELSE row.remaining_queries = 0

\* the quota of the type still at the sentinel: both fields of a super token,
\* remaining_queries of a standard one
Claimed_Unused(row) ==
    IF row.token_type = "ssoSuper"
    THEN row.remaining_queries = -1 /\ row.heavy_remaining_queries = -1
    ELSE row.remaining_queries = -1

\* C15: the label is that of the first rule that matches, in the order expired,
\* cooling down (limit_reason cooldown), quota exhausted (limit_reason
\* exhausted), unused, normal (limit_reason empty).
C15_LabelPrecedence ==
    last.op = "info" =>
       LET row == tokens[last.token]
           res == last.res
       IN  IF row.status = "expired" THEN res.status = LABEL_EXPIRED
           ELSE IF Claimed_Cooling(row, now)
                THEN res.status = LABEL_COOLING /\ res.limit_reason = "cooldown"
           ELSE IF Claimed_Exhausted(row)
                THEN res.status = LABEL_EXHAUSTED /\ res.limit_reason = "exhausted"
           ELSE IF Claimed_Unused(row) THEN res.status = LABEL_UNUSED
           ELSE res.status = LABEL_NORMAL /\ res.limit_reason = ""

\* an expired super token with a cooldown ahead and a quota at 0 is labelled expired
C15_Witness ==
    /\ last.op = "info"
    /\ tokens[last.token].status = "expired"
    /\ tokens[last.token].token_type = "ssoSuper"
    /\ Claimed_Cooling(tokens[last.token], now)
    /\ tokens[last.token].heavy_remaining_queries = 0
    /\ last.res.status = LABEL_EXPIRED

----------------------------------------------------------------------------
(* SpecCache: upsert, touch and delete over two stored cache keys and one   *)
(* that is never stored                                                    *)

CacheKeys == {"k1", "k2", "k3"}

CacheTimes == {1, 2, 3}

\* the rows a caller writes: created_at and last_access_at both the time of the write
CacheRowsAt(keys) ==
    {[key |-> k, type |-> "image", size |-> 1, content_type |-> Null,
      created_at |-> t, last_access_at |-> t, expires_at |-> Null] :
        k \in keys, t \in CacheTimes}
    \cup
    {[key |-> k, type |-> "video", size |-> 2, content_type |-> Some("video/mp4"),
      created_at |-> t, last_access_at |-> t, expires_at |-> Some(t + 5)] :
        k \in keys, t \in CacheTimes}

NextCache ==
    \/ \E row \in CacheRowsAt({"k1", "k2"}) : upsertCacheRow(row)
    \/ \E k \in {"k1", "k2"}, at \in CacheTimes : touchCacheRow(k, at)
    \/ \E k \in {"k1", "k3"} : deleteCacheRow(k)
    \/ \E keys \in { << >>, <<"k2", "k3">>, <<"k1", "k2">> } : deleteCacheRows(keys)

SpecCache == Init /\ [][NextCache]_vars

----------------------------------------------------------------------------
(* C17 *)

\* C17: created_at of a stored key is that of the upsert that created the row;
\* a later upsert on the key overwrites type, size, content_type,
\* last_access_at and expires_at and keeps created_at; a touch changes
\* last_access_at only.
C17_CreatedAtKept ==
    [][/\ \A k \in DOMAIN cache \cap DOMAIN cache' :
             cache'[k].created_at = cache[k].created_at
       /\ last'.op = "upsert" =>
             /\ last'.key \in DOMAIN cache'
             /\ last'.key \notin DOMAIN cache =>
                   cache'[last'.key].created_at = last'.row.created_at
             /\ cache'[last'.key].type = last'.row.type
             /\ cache'[last'.key].size = last'.row.size
             /\ cache'[last'.key].content_type = last'.row.content_type
             /\ cache'[last'.key].last_access_at = last'.row.last_access_at
             /\ cache'[last'.key].expires_at = last'.row.expires_at
       /\ (last'.op = "touch" /\ last'.key \in DOMAIN cache) =>
             cache' = [cache EXCEPT ![last'.key].last_access_at = last'.at]]_vars

\* k1, created at 1 as an image, was written again at 3 as a video
C17_Witness ==
    /\ last.op = "upsert" /\ last.key = "k1"
    /\ last.row.created_at = 3 /\ last.row.type = "video"
    /\ cache["k1"].created_at = 1
    /\ cache["k1"].size = 2 /\ cache["k1"].last_access_at = 3

----------------------------------------------------------------------------
(* SpecEvict: listOldestRows over every table of up to three keys, each    *)
(* written once and possibly touched later.                                *)

MaxLimit == 3

CacheTypes == {"image", "video"}

\* the table after key k was written at time 1 and touched at time at
seededCache(c, k, p) ==
    IF p.stored
    THEN touchDb(upsertDb(c, [key |-> k, type |-> p.type, size |-> 1, content_type |-> Null,
                              created_at |-> 1, last_access_at |-> 1, expires_at |-> Null]),
                 k, p.at)
    ELSE c

CacheShapes ==
    {[stored |-> FALSE, type |-> "image", at |-> 1]}
    \cup [stored : {TRUE}, type : CacheTypes, at : CacheTimes]

InitEvict ==
    /\ tokens = << >>
    /\ now = 0
    /\ last = [op |-> "init"]
    /\ streak = NoStreak
    /\ struck = [done |-> {}, readded |-> {}]
    /\ cache \in {seededCache(seededCache(seededCache(<< >>, "k1", a), "k2", b), "k3", c) :
                    a \in CacheShapes, b \in CacheShapes, c \in CacheShapes}
    /\ calls = << >>

NextEvict ==
    \E type \in {Null} \cup {Some(ty) : ty \in CacheTypes},
       beforeMs \in {Null, Some(2), Some(3)},
       limit \in 0..MaxLimit :
          listOldestRows(type, beforeMs, limit)

SpecEvict == InitEvict /\ [][NextEvict]_vars

----------------------------------------------------------------------------
(* C16 *)

\* the stored keys that pass the filters the call gave
Claimed_Passing ==
    {k \in DOMAIN cache :
        /\ last.type # Null => cache[k].type = last.type[1]
        /\ last.beforeMs # Null => cache[k].last_access_at < last.beforeMs[1]}

\* what the claim says of the result, but for the order of its entries
Claimed_OldestOfPassing ==
    /\ Len(last.res) <= last.limit
    /\ \A i \in 1..Len(last.res) :
          /\ last.res[i].key \in Claimed_Passing
          /\ last.res[i] = [key |-> last.res[i].key,
                            type |-> cache[last.res[i].key].type,
                            size |-> cache[last.res[i].key].size,
                            last_access_at |-> cache[last.res[i].key].last_access_at]
    /\ \A i, j \in 1..Len(last.res) : i # j => last.res[i].key # last.res[j].key
    /\ \A k \in Claimed_Passing :
          \/ \E i \in 1..Len(last.res) : last.res[i].key = k
          \/ /\ Len(last.res) = last.limit
             /\ \A i \in 1..Len(last.res) :
                   last.res[i].last_access_at <= cache[k].last_access_at

\* C16 as stated: the result has at most limit entries, in strictly ascending
\* order of last_access_at, all of the given type and older than the cutoff,
\* and they are the least recently accessed of the entries that pass.
C16_StrictlyAscending ==
    last.op = "listOldest" =>
       /\ Claimed_OldestOfPassing
       /\ \A i, j \in 1..Len(last.res) :
             i < j => last.res[i].last_access_at < last.res[j].last_access_at

\* C16, amended: the order is ascending, and entries with equal
\* last_access_at may come in either order.
C16_AscendingOldest ==
    last.op = "listOldest" =>
       /\ Claimed_OldestOfPassing
       /\ \A i, j \in 1..Len(last.res) :
             i < j => last.res[i].last_access_at <= last.res[j].last_access_at

\* of three images accessed at 1, 2 and 3 and a cutoff of 3, with a type
\* given, the one entry asked for is the oldest
C16_Witness ==
    /\ last.op = "listOldest"
    /\ last.type = Some("image") /\ last.beforeMs = Some(3) /\ last.limit = 1
    /\ DOMAIN cache = {"k1", "k2", "k3"}
    /\ cache["k1"].type = "video" /\ cache["k1"].last_access_at = 1
    /\ cache["k2"].type = "image" /\ cache["k2"].last_access_at = 3
    /\ cache["k3"].type = "image" /\ cache["k3"].last_access_at = 2
    /\ Len(last.res) = 1 /\ last.res[1].key = "k3"

----------------------------------------------------------------------------
(* SpecBulk: add and remove of lists around the batch size of 50, and      *)
(* batchExecute with small batch sizes.                                    *)

MaxBatchSize == 3

Digits == <<"0", "1", "2", "3", "4", "5", "6", "7", "8", "9">>

\* n different token strings: "001", "002", ...
manyTokens(n) ==
    [i \in 1..n |->
        <<Digits[(i \div 100) + 1], Digits[((i \div 10) % 10) + 1], Digits[(i % 10) + 1]>>]

BulkSizes == {0, D1_BATCH_SIZE, D1_BATCH_SIZE + 1}

NextBulk ==
    \/ \E n \in BulkSizes, ty \in TokenTypes : addTokens(manyTokens(n), ty)
    \/ \E n \in BulkSizes, ty \in TokenTypes : deleteTokens(manyTokens(n), ty)
    \/ \E n \in 0..(MaxBatchSize + 1), size \in 1..MaxBatchSize :
          BatchExecute(manyTokens(n), "sso", size)

SpecBulk == Init /\ [][NextBulk]_vars

----------------------------------------------------------------------------
(* C13 *)

Claimed_Ceil(n, size) == (n + size - 1) \div size

Claimed_ChunkSize == IF last.op = "batchExecute" THEN last.batchSize ELSE D1_BATCH_SIZE

\* the token strings a storage call carries
Claimed_Keys(call) ==
    IF call.kind = "batch" THEN [i \in 1..Len(call.batch) |-> call.batch[i].token]
    ELSE call.batch

RECURSIVE Claimed_Concat(_)
Claimed_Concat(chunks) ==
    IF Len(chunks) = 0 THEN << >> ELSE Head(chunks) \o Claimed_Concat(Tail(chunks))

\* the chunks written or deleted, in the order of the calls
Claimed_Chunks ==
    LET writes == SelectSeq(last.storage, LAMBDA call : call.kind # "count")
    IN  [i \in 1..Len(writes) |-> Claimed_Keys(writes[i])]

\* every element once, in input order, in chunks of 1..size elements, all but
\* the last one full, and the table holds the outcome
Claimed_ChunkedOnce ==
    /\ Claimed_Concat(Claimed_Chunks) = last.cleaned
    /\ \A i \in 1..Len(Claimed_Chunks) :
          /\ Len(Claimed_Chunks[i]) >= 1
          /\ Len(Claimed_Chunks[i]) <= Claimed_ChunkSize
          /\ i < Len(Claimed_Chunks) => Len(Claimed_Chunks[i]) = Claimed_ChunkSize
    /\ Len(Claimed_Chunks) = Claimed_Ceil(Len(last.cleaned), Claimed_ChunkSize)
    /\ last.op \in {"add", "batchExecute"} =>
          \A i \in 1..Len(last.cleaned) :
             /\ last.cleaned[i] \in DOMAIN tokens
             /\ tokens[last.cleaned[i]].token_type = last.token_type
    /\ last.op = "remove" =>
          \A i \in 1..Len(last.cleaned) :
             last.cleaned[i] \in DOMAIN tokens =>
                tokens[last.cleaned[i]].token_type # last.token_type

\* C13 as stated: every element is processed once, in input order, in chunks
\* of at most the chunk size, and add and remove make ceil(n / chunkSize)
\* storage calls.
C13_CeilStorageCalls ==
    last.op \in {"add", "remove", "batchExecute"} =>
       /\ Claimed_ChunkedOnce
       /\ Len(last.storage) = Claimed_Ceil(Len(last.cleaned), Claimed_ChunkSize)

\* C13, amended: the loop runs ceil(n / chunkSize) times; add makes one
\* storage call per chunk and remove two, a count and then a delete of the
\* same chunk.
C13_CeilChunks ==
    last.op \in {"add", "remove", "batchExecute"} =>
       /\ Claimed_ChunkedOnce
       /\ last.op \in {"add", "batchExecute"} =>
             Len(last.storage) = Claimed_Ceil(Len(last.cleaned), Claimed_ChunkSize)
       /\ last.op = "remove" =>
             /\ Len(last.storage) = 2 * Claimed_Ceil(Len(last.cleaned), Claimed_ChunkSize)
             /\ \A i \in 1..Len(last.storage) :
                   IF i % 2 = 1 THEN last.storage[i].kind = "count"
                   ELSE /\ last.storage[i].kind = "delete"
                        /\ last.storage[i].batch = last.storage[i - 1].batch

\* 51 stored tokens were removed in a chunk of 50 and a chunk of 1
C13_Witness ==
    /\ last.op = "remove" /\ Len(last.cleaned) = D1_BATCH_SIZE + 1
    /\ last.res = D1_BATCH_SIZE + 1
    /\ Len(last.storage) = 4
    /\ Len(last.storage[2].batch) = D1_BATCH_SIZE /\ Len(last.storage[4].batch) = 1
    /\ DOMAIN tokens = {}

----------------------------------------------------------------------------
(* SpecFailures: up to NumCalls concurrent recordTokenFailure calls on a   *)
(* stored token A, and nothing else.  A call stays in calls after its last *)
(* statement, so calls counts the calls made.                              *)

NumCalls == 3

\* A after 0..3 failures that were reported one after the other
FailureSeeds ==
    {failTimes(batchExecute(<< >>, addStmts(<<TokA>>, "sso", 0), D1_BATCH_SIZE),
               TokA, status, 0, n) : status \in {404, 500}, n \in 0..MAX_FAILURES}

InitFailures ==
    /\ tokens \in FailureSeeds
    /\ now = 1000
    /\ last = [op |-> "init", failed_count |-> tokens[TokA].failed_count,
               status |-> tokens[TokA].status]
    /\ streak = NoStreak
    /\ struck = [done |-> {}, readded |-> {}]
    /\ cache = << >>
    /\ calls = << >>

NextFailures ==
    \E id \in 1..NumCalls :
       \/ \E status \in {404, 500} : failureIncrement(id, TokA, status, "m")
       \/ failureSelect(id)
       \/ failureExpire(id)

SpecFailures == InitFailures /\ [][NextFailures]_vars

----------------------------------------------------------------------------
(* C14 *)

Claimed_AllCompleted(cs) == DOMAIN cs # {} /\ \A id \in DOMAIN cs : cs[id].pc = "done"

\* C14: once all the N calls made have completed, failed_count is the initial
\* value plus N, and if they all carried a 4xx status the token is expired
\* exactly when that failed_count is at least MAX_FAILURES; an expire
\* statement that finds the token expired changes nothing.
C14_NoLostIncrement ==
    [][/\ Claimed_AllCompleted(calls') =>
             /\ tokens'[TokA].failed_count = last.failed_count + Cardinality(DOMAIN calls')
             /\ (\A id \in DOMAIN calls' : calls'[id].status \in 400..499) =>
                   (tokens'[TokA].status = "expired"
                       <=> tokens'[TokA].failed_count >= MAX_FAILURES)
       /\ \A id \in DOMAIN calls :
             (/\ calls[id].pc = "expire" /\ calls'[id].pc = "done"
              /\ tokens[TokA].status = "expired") => tokens' = tokens]_vars

\* three 404 calls on a fresh A have all completed and A is expired
C14_Witness ==
    /\ last.op = "init" /\ last.failed_count = 0
    /\ DOMAIN calls = 1..3
    /\ \A id \in DOMAIN calls : calls[id].pc = "done" /\ calls[id].status = 404
    /\ tokens[TokA].failed_count = 3 /\ tokens[TokA].status = "expired"

----------------------------------------------------------------------------
(* SpecRace: the storage statements of concurrent recordTokenFailure and   *)
(* applyCooldown calls on A interleave with addTokens and                  *)
(* updateTokenLimits, which run one statement each.                        *)

RaceCalls == 2

NextRace ==
    \/ addTokens(<<TokA>>, "sso")
    \/ updateTokenLimits(TokA, [remaining_queries |-> Some(0), heavy_remaining_queries |-> Null])
    \/ applyCooldown(TokA, 500)
    \/ \E id \in 1..RaceCalls :
          \/ failureIncrement(id, TokA, 404, "m")
          \/ failureSelect(id)
          \/ failureExpire(id)
          \/ cooldownSelect(id, TokA)
          \/ cooldownUpdate(id)
          \/ callReturn(id)

SpecRace == Init /\ [][NextRace]_vars

----------------------------------------------------------------------------
(* C19 *)

\* C19: a stored token that is expired has failed_count >= MAX_FAILURES.
C19_ExpiredHasFailures ==
    \A k \in DOMAIN tokens :
       tokens[k].status = "expired" => tokens[k].failed_count >= MAX_FAILURES

----------------------------------------------------------------------------
(* SpecRemove: one deleteTokens call runs statement by statement while     *)
(* addTokens and other deleteTokens calls run between its statements.  For *)
(* the call that is watched, another deletion matters only through its     *)
(* DELETE statement, so the other calls run as one step.                   *)

RemoveLists == { <<TokA>>, << <<" ", "A">>, TokB >> }

NextRemove ==
    \/ \E list \in {<<TokA>>, <<TokA, TokB>>}, ty \in TokenTypes : addTokens(list, ty)
    \/ \E list \in RemoveLists, ty \in TokenTypes : deleteTokens(list, ty)
    \/ \E list \in RemoveLists, ty \in TokenTypes : removeStart(1, list, ty)
    \/ removeCount(1)
    \/ removeDelete(1)
    \/ callReturn(1)

SpecRemove == Init /\ [][NextRemove]_vars

----------------------------------------------------------------------------
(* C12 *)

\* the delete statement of call id has just run
Claimed_Deleted(id) ==
    /\ id \in DOMAIN calls /\ calls[id].op = "remove" /\ calls[id].pc = "delete"
    /\ calls'[id].pc # "delete"

\* the delete statement removed the stored records named in the list that
\* have the given type, and no others
Claimed_ExactDelete(id) ==
    LET gone == {k \in DOMAIN tokens :
                    /\ \E i \in 1..Len(calls[id].cleaned) : calls[id].cleaned[i] = k
                    /\ tokens[k].token_type = calls[id].token_type}
    IN  /\ DOMAIN tokens' = DOMAIN tokens \ gone
        /\ \A k \in DOMAIN tokens' : tokens'[k] = tokens[k]

\* C12 as stated: remove deletes the listed records of the given type and no
\* others, and the count of a completed remove is the number of records it
\* removed unless another deletion of the same tokens ran between its count
\* and its delete.
C12_CountExactButForDeletions ==
    [][\A id \in DOMAIN calls' :
          calls'[id].op = "remove" =>
             /\ Claimed_Deleted(id) => Claimed_ExactDelete(id)
             /\ (calls'[id].pc = "done" /\ "remove" \notin calls'[id].raced) =>
                   calls'[id].totalDeleted = calls'[id].removed]_vars

\* C12, amended: the count is the number of records removed unless another
\* deletion or an add of the same tokens ran between the count and the delete.
C12_CountExactButForWrites ==
    [][\A id \in DOMAIN calls' :
          calls'[id].op = "remove" =>
             /\ Claimed_Deleted(id) => Claimed_ExactDelete(id)
             /\ (calls'[id].pc = "done" /\ calls'[id].raced = {}) =>
                   calls'[id].totalDeleted = calls'[id].removed]_vars

\* remove([" A", "B"], sso) completed undisturbed: A, of type sso, is gone and
\* counted, and B, of the other type, is still stored
C12_Witness ==
    \E id \in DOMAIN calls :
       /\ calls[id].op = "remove" /\ calls[id].pc = "done"
       /\ calls[id].cleaned = <<TokA, TokB>> /\ calls[id].token_type = "sso"
       /\ calls[id].raced = {}
       /\ calls[id].totalDeleted = 1 /\ calls[id].removed = 1
       /\ DOMAIN tokens = {TokB} /\ tokens[TokB].token_type = "ssoSuper"

====
